---- MODULE Spec2Model ----
(***************************************************************************)
(* A model of ircodec's classification and normalisation of infrared      *)
(* commands: ircodec/signal.py (Signal, SignalClass, PulseClass, GapClass, *)
(* group_signals) and ircodec/command.py (Command, parse_command,          *)
(* normalize_command).                                                     *)
(*                                                                         *)
(* Python values are modelled as follows.                                  *)
(*   - an object is a record holding its class name in "type" and its      *)
(*     attributes, which is also the shape its to_json document has;       *)
(*   - a float tolerance is an integer number of hundredths (0.1 is 10),   *)
(*     and b < a * (1 + tolerance) is 100*b < a*(100 + tolerance); for the *)
(*     lengths and tolerances used here the IEEE-754 comparison of the     *)
(*     code and this exact one agree;                                      *)
(*   - the float mean of a class is the reduced fraction num/den;          *)
(*   - None, and JSON's null, is the record [none |-> TRUE, list |-> <<>>];  *)
(*   - a raised exception is a record [type, message, signal].             *)
(***************************************************************************)
EXTENDS Integers, Sequences, FiniteSets, TLC

VARIABLES
    name,               \* Command.name
    description,        \* Command.description
    signal_list,        \* Command.signal_list
    signal_class_list,  \* Command.signal_class_list (None until normalised)
    raw_capture,        \* the signal list the Command object was created with
    PulseClass_uid,     \* the class attribute PulseClass.uid
    GapClass_uid,       \* the class attribute GapClass.uid
    class_ids,          \* per class, the uid and id values of the objects of the
                        \* class constructed or decoded so far in this process
    json,               \* the last document written by Command.to_json
    call,               \* the last call made: its name and its arguments
    raised,             \* the exception the last call raised, or NoError
    ret                 \* what the last call returned

vars == <<name, description, signal_list, signal_class_list, raw_capture,
          PulseClass_uid, GapClass_uid, class_ids, json, call, raised, ret>>

(***************************************************************************)
(* Bounds of the model.                                                    *)
(***************************************************************************)
MinLength == 10
MaxLength == 12
MaxLen == 3
MaxGroupLen == 4
MaxClasses == 3
MaxUid == 3
WideTolerance == 15

\* tolerance=0.1, the default of group_signals and of parse_command, in hundredths
DefaultTolerance == 10

\* signal lengths in microseconds: the degenerate length 0 and a range of
\* lengths close enough for the default tolerance to group some and not others
Lengths == {0} \cup (MinLength..MaxLength)

Tolerances == {DefaultTolerance, WideTolerance}

SeqsUpTo(S, n) == UNION {[1..k -> S] : k \in 0..n}

(***************************************************************************)
(* Python values.                                                          *)
(***************************************************************************)
None == [none |-> TRUE, list |-> <<>>]
Some(l) == [none |-> FALSE, list |-> l]

NoError == [type |-> "", message |-> "", signal |-> <<>>]
IndexError == [type |-> "IndexError", message |-> "list index out of range", signal |-> <<>>]
UnboundLocalError == [type |-> "UnboundLocalError", message |-> "pulse_type", signal |-> <<>>]
TypeError == [type |-> "TypeError", message |-> "'NoneType' object is not iterable", signal |-> <<>>]
Exception(msg, sig) == [type |-> "Exception", message |-> msg, signal |-> <<sig>>]

Pulse(length) == [type |-> "Pulse", length |-> length]
Gap(length) == [type |-> "Gap", length |-> length]

\* [Gap(s) if i & 1 else Pulse(s) for i, s in enumerate(ir_signal_list)]
\* (position k of the model is index k-1 of the code)
Signals(lengths) ==
    [k \in 1..Len(lengths) |-> IF k % 2 = 0 THEN Gap(lengths[k]) ELSE Pulse(lengths[k])]

\* ir_signal_list[::2]
EvenIndexed(l) == [k \in 1..((Len(l) + 1) \div 2) |-> l[2 * k - 1]]
\* ir_signal_list[1::2]
OddIndexed(l) == [k \in 1..(Len(l) \div 2) |-> l[2 * k]]

RECURSIVE SumSeq(_)
SumSeq(s) == IF s = <<>> THEN 0 ELSE Head(s) + SumSeq(Tail(s))

MinOf(S) == CHOOSE x \in S : \A y \in S : x <= y
MaxOf(S) == CHOOSE x \in S : \A y \in S : y <= x
Range(s) == {s[k] : k \in 1..Len(s)}
Count(s, x) == Cardinality({k \in 1..Len(s) : s[k] = x})

RECURSIVE Gcd(_, _)
Gcd(a, b) == IF b = 0 THEN a ELSE Gcd(b, a % b)

\* sum(self.signals) / len(self.signals): the float, as a reduced fraction
Mean(s) ==
    LET g == Gcd(SumSeq(s), Len(s))
    IN  [num |-> SumSeq(s) \div g, den |-> Len(s) \div g]

\* int(self.mean), for a mean that is not negative
IntMean(m) == m.num \div m.den

\* max(set(self.signals), key=self.signals.count): the first most frequent
\* value in the set's iteration order, which for these lengths is ascending
Mode(s) == MinOf({x \in Range(s) : \A y \in Range(s) : Count(s, y) <= Count(s, x)})

(***************************************************************************)
(* signal.py: group_signals.                                               *)
(***************************************************************************)
\* sorted(signal_list, key=lambda x: x.length): a stable sort
RECURSIVE sorted(_)
sorted(s) ==
    IF s = <<>> THEN <<>>
    ELSE LET rest == sorted(Tail(s))
             before == {k \in 1..Len(rest) : rest[k].length < Head(s).length}
             n == Cardinality(before)
         IN  SubSeq(rest, 1, n) \o <<Head(s)>> \o SubSeq(rest, n + 1, Len(rest))

\* b.length < a.length * max_tol, with max_tol = 1 + tolerance
WithinTolerance(a, b, tolerance) == 100 * b.length < a.length * (100 + tolerance)

\* a grouping against the first element of the group instead of the preceding one
RECURSIVE AnchoredGroupLoop(_, _, _, _)
AnchoredGroupLoop(s, i, signal_grouping, tolerance) ==
    IF i > Len(s) THEN signal_grouping
    ELSE IF WithinTolerance(signal_grouping[Len(signal_grouping)][1], s[i], tolerance)
         THEN AnchoredGroupLoop(s, i + 1,
                        [signal_grouping EXCEPT ![Len(signal_grouping)] = Append(@, s[i])],
                        tolerance)
         ELSE AnchoredGroupLoop(s, i + 1, Append(signal_grouping, <<s[i]>>), tolerance)

\* a grouping that drops the element that opens a new group
RECURSIVE LossyGroupLoop(_, _, _, _)
LossyGroupLoop(s, i, signal_grouping, tolerance) ==
    IF i > Len(s) THEN signal_grouping
    ELSE IF WithinTolerance(s[i - 1], s[i], tolerance)
         THEN LossyGroupLoop(s, i + 1,
                        [signal_grouping EXCEPT ![Len(signal_grouping)] = Append(@, s[i])],
                        tolerance)
         ELSE LossyGroupLoop(s, i + 1, Append(signal_grouping, <<>>), tolerance)

\* the loop over zip(sorted_signals[:-1], sorted_signals[1:]); i is the place of b
RECURSIVE GroupLoop(_, _, _, _)
GroupLoop(s, i, signal_grouping, tolerance) ==
    IF i > Len(s) THEN signal_grouping
    ELSE IF WithinTolerance(s[i - 1], s[i], tolerance)
         THEN GroupLoop(s, i + 1,
                        [signal_grouping EXCEPT ![Len(signal_grouping)] = Append(@, s[i])],
                        tolerance)
         ELSE GroupLoop(s, i + 1, Append(signal_grouping, <<s[i]>>), tolerance)

\* group_signals: sorted_signals[0] raises IndexError on an empty list
group_signals(signals, tolerance) ==
    IF signals = <<>>
    THEN [raised |-> IndexError, value |-> <<>>]
    ELSE LET sorted_signals == sorted(signals)
         IN  [raised |-> NoError,
              value |-> GroupLoop(sorted_signals, 2, <<<<sorted_signals[1]>>>>, tolerance)]

(***************************************************************************)
(* signal.py: SignalClass, PulseClass, GapClass.                           *)
(***************************************************************************)
\* SignalClass.__init__ followed by PulseClass.__init__ or GapClass.__init__,
\* with counter the class attribute uid of that class before the call: uid
\* takes the counter, id the counter after its first increment
NewClass(type, signal_group, counter) ==
    LET lengths == [k \in 1..Len(signal_group) |-> signal_group[k].length]
    IN  [type |-> type,
         uid |-> counter,
         signals |-> lengths,
         mean |-> Mean(lengths),
         mode |-> Mode(lengths),
         min |-> MinOf(Range(lengths)),
         max |-> MaxOf(Range(lengths)),
         range |-> MaxOf(Range(lengths)) - MinOf(Range(lengths)),
         id |-> counter + 1]

\* [PulseClass(pulses) for pulses in grouped_pulses]: each construction
\* advances the class attribute uid twice
NewClasses(type, grouping, counter) ==
    [k \in 1..Len(grouping) |-> NewClass(type, grouping[k], counter + 2 * (k - 1))]

\* SignalClass.count
count(cls) == Len(cls.signals)

\* no PulseClass and no GapClass object exists yet
NoClasses == [PulseClass |-> {}, GapClass |-> {}]

\* the values that the objects of one class in a list hold in self.uid and self.id
IdsOf(type, classes) ==
    UNION {{classes[k].uid, classes[k].id} :
              k \in {j \in 1..Len(classes) : classes[j].type = type}}

\* the values held once the objects of a list exist, too
WithClasses(ids, classes) ==
    [PulseClass |-> ids.PulseClass \cup IdsOf("PulseClass", classes),
     GapClass |-> ids.GapClass \cup IdsOf("GapClass", classes)]

\* a membership test that leaves the ends of the interval out
StrictContains(cls, signal) == signal.length > cls.min /\ signal.length < cls.max

\* SignalClass.__contains__
Contains(cls, signal) == signal.length >= cls.min /\ signal.length <= cls.max

\* a representative rounded up instead of down
normalizedUp(cls, normalized_value) ==
    [type |-> IF cls.type = "PulseClass" THEN "Pulse" ELSE "Gap",
     length |-> IntMean(cls.mean) + 1]

\* SignalClass.normalized: unit is Pulse for a PulseClass and Gap for a
\* GapClass; the unrounded 'mean' keeps the fraction
normalized(cls, normalized_value) ==
    [type |-> IF cls.type = "PulseClass" THEN "Pulse" ELSE "Gap",
     length |-> CASE normalized_value = "mean" -> cls.mean
                  [] normalized_value = "int_mean" -> IntMean(cls.mean)
                  [] normalized_value = "mode" -> cls.mode
                  [] normalized_value = "min" -> cls.min
                  [] normalized_value = "max" -> cls.max]

(***************************************************************************)
(* command.py: parse_command and normalize_command.                        *)
(***************************************************************************)
\* parse_command, called with the class counters pulse_uid and gap_uid. Both
\* groupings are made, without the tolerance argument, before any class is
\* constructed.
parse_command(ir_signal_list, tolerance, pulse_uid, gap_uid) ==
    LET grouped_pulses == group_signals(EvenIndexed(ir_signal_list), DefaultTolerance)
        grouped_gaps == group_signals(OddIndexed(ir_signal_list), DefaultTolerance)
    IN  IF grouped_pulses.raised # NoError \/ grouped_gaps.raised # NoError
        THEN [raised |-> IF grouped_pulses.raised # NoError
                         THEN grouped_pulses.raised ELSE grouped_gaps.raised,
              pulse_classes |-> <<>>, gap_classes |-> <<>>,
              PulseClass_uid |-> pulse_uid, GapClass_uid |-> gap_uid]
        ELSE [raised |-> NoError,
              pulse_classes |-> NewClasses("PulseClass", grouped_pulses.value, pulse_uid),
              gap_classes |-> NewClasses("GapClass", grouped_gaps.value, gap_uid),
              PulseClass_uid |-> pulse_uid + 2 * Len(grouped_pulses.value),
              GapClass_uid |-> gap_uid + 2 * Len(grouped_gaps.value)]

\* a local variable of normalize_command: not yet assigned, None, or a class
Unbound == [bound |-> FALSE, val |-> <<>>]
BoundNone == [bound |-> TRUE, val |-> <<>>]
Bound(cls) == [bound |-> TRUE, val |-> <<cls>>]

\* a scan that stops at the first class containing the signal
RECURSIVE FirstScan(_, _, _, _)
FirstScan(classes, signal, i, found) ==
    IF i > Len(classes) THEN found
    ELSE IF Contains(classes[i], signal) THEN Bound(classes[i])
         ELSE FirstScan(classes, signal, i + 1, found)

\* for ptype in pulse_classes: if pulse in ptype: pulse_type = ptype
\* (found is the variable before the loop)
RECURSIVE Scan(_, _, _, _)
Scan(classes, signal, i, found) ==
    IF i > Len(classes) THEN found
    ELSE Scan(classes, signal, i + 1,
              IF Contains(classes[i], signal) THEN Bound(classes[i]) ELSE found)

\* the loop over zip(ir_signal_list[:-1:2], ir_signal_list[1::2]), from its
\* k-th pair on; acc holds the exception raised, signal_class_list and the
\* pulse_type the last iteration left
RECURSIVE PairLoop(_, _, _, _, _)
PairLoop(ir_signal_list, pulse_classes, gap_classes, k, acc) ==
    IF k > Len(ir_signal_list) \div 2 THEN acc
    ELSE LET pulse == ir_signal_list[2 * k - 1]
             gap == ir_signal_list[2 * k]
             pulse_type == Scan(pulse_classes, pulse, 1, BoundNone)
             gap_type == Scan(gap_classes, gap, 1, BoundNone)
         IN  IF pulse_type = BoundNone
             THEN [acc EXCEPT !.raised = Exception("Could not normalize pulse", pulse)]
             ELSE IF gap_type = BoundNone
             THEN [acc EXCEPT !.raised = Exception("Could not normalize gap", gap)]
             ELSE PairLoop(ir_signal_list, pulse_classes, gap_classes, k + 1,
                           [raised |-> NoError,
                            signal_class_list |->
                                acc.signal_class_list \o <<pulse_type.val[1], gap_type.val[1]>>,
                            pulse_type |-> pulse_type])

NormalizeFailed(error) == [raised |-> error, signal_list |-> <<>>, signal_class_list |-> <<>>]

\* normalize_command(..., return_class=True). The last pulse is looked up
\* without resetting pulse_type, which still holds what the loop left: the
\* class of the pulse before, or nothing when the loop never ran.
normalize_command(ir_signal_list, pulse_classes, gap_classes) ==
    LET loop == PairLoop(ir_signal_list, pulse_classes, gap_classes, 1,
                         [raised |-> NoError, signal_class_list |-> <<>>,
                          pulse_type |-> Unbound])
    IN  IF loop.raised # NoError THEN NormalizeFailed(loop.raised)
        ELSE IF ir_signal_list = <<>> THEN NormalizeFailed(IndexError)
        ELSE LET pulse == ir_signal_list[Len(ir_signal_list)]
                 pulse_type == Scan(pulse_classes, pulse, 1, loop.pulse_type)
             IN  IF ~pulse_type.bound THEN NormalizeFailed(UnboundLocalError)
                 ELSE IF pulse_type = BoundNone
                 THEN NormalizeFailed(Exception("Could not normalize pulse", pulse))
                 ELSE LET classes == Append(loop.signal_class_list, pulse_type.val[1])
                      IN  [raised |-> NoError,
                           signal_list |->
                               [k \in 1..Len(classes) |-> normalized(classes[k], "int_mean")],
                           signal_class_list |-> classes]

(***************************************************************************)
(* Calls of the three functions on their own: group_signals, parse_command *)
(* and normalize_command, each started with arguments drawn from the       *)
(* bounded sets below and then run to its return or its exception.         *)
(***************************************************************************)
\* the lengths the supplied classes and the signals normalised against them use
ClassLengths == MinLength..MaxLength

\* the member lengths of a supplied class: one length, or a length and the next
\* one, so that classes can be apart, nested, or overlap in part
ClassMembers ==
    {<<lo>> : lo \in ClassLengths}
        \cup {<<lo, lo + 1>> : lo \in ClassLengths \ {MaxLength}}

\* a list of classes of one kind, constructed in order from fresh counters
ClassList(type, unit, members) ==
    [k \in 1..Len(members) |->
        NewClass(type, [j \in 1..Len(members[k]) |-> [type |-> unit, length |-> members[k][j]]],
                 2 * (k - 1))]

PendingCall(op, signals, tolerance, pulse_classes, gap_classes) ==
    [op |-> op, returned |-> FALSE, ir_signal_list |-> signals, tolerance |-> tolerance,
     pulse_classes |-> pulse_classes, gap_classes |-> gap_classes]

NoCommand ==
    /\ name = ""
    /\ description = ""
    /\ signal_list = <<>>
    /\ signal_class_list = None
    /\ raw_capture = <<>>
    /\ PulseClass_uid = 0
    /\ GapClass_uid = 0
    /\ class_ids = NoClasses
    /\ json = None

InitCalls ==
    /\ NoCommand
    /\ raised = NoError
    /\ ret = <<>>
    /\ \/ \E lengths \in SeqsUpTo(Lengths, MaxGroupLen), unit \in {"Pulse", "Gap"},
             tolerance \in Tolerances :
             call = PendingCall("group_signals",
                                [k \in 1..Len(lengths) |-> [type |-> unit, length |-> lengths[k]]],
                                tolerance, <<>>, <<>>)
       \/ \E lengths \in SeqsUpTo(Lengths, MaxLen), tolerance \in Tolerances :
             call = PendingCall("parse_command", Signals(lengths), tolerance, <<>>, <<>>)
       \/ \E lengths \in SeqsUpTo(ClassLengths, MaxLen), p \in 0..MaxClasses :
             \E pulses \in [1..p -> ClassMembers],
                gaps \in SeqsUpTo(ClassMembers, MaxClasses - p) :
                call = PendingCall("normalize_command", Signals(lengths), DefaultTolerance,
                                   ClassList("PulseClass", "Pulse", pulses),
                                   ClassList("GapClass", "Gap", gaps))

Returns(op) ==
    /\ call.op = op
    /\ ~call.returned
    /\ call' = [call EXCEPT !.returned = TRUE]
    /\ UNCHANGED <<name, description, signal_list, signal_class_list, raw_capture, json>>

GroupSignals ==
    /\ Returns("group_signals")
    /\ LET r == group_signals(call.ir_signal_list, call.tolerance)
       IN  raised' = r.raised /\ ret' = r.value
    /\ UNCHANGED <<PulseClass_uid, GapClass_uid, class_ids>>

ParseCommand ==
    /\ Returns("parse_command")
    /\ LET r == parse_command(call.ir_signal_list, call.tolerance, PulseClass_uid, GapClass_uid)
       IN  /\ raised' = r.raised
           /\ ret' = [pulse_classes |-> r.pulse_classes, gap_classes |-> r.gap_classes]
           /\ PulseClass_uid' = r.PulseClass_uid
           /\ GapClass_uid' = r.GapClass_uid
           /\ class_ids' = WithClasses(class_ids, r.pulse_classes \o r.gap_classes)

NormalizeCommand ==
    /\ Returns("normalize_command")
    /\ LET r == normalize_command(call.ir_signal_list, call.pulse_classes, call.gap_classes)
       IN  /\ raised' = r.raised
           /\ ret' = [signal_list |-> r.signal_list, signal_class_list |-> r.signal_class_list]
    /\ UNCHANGED <<PulseClass_uid, GapClass_uid, class_ids>>

NextCalls == GroupSignals \/ ParseCommand \/ NormalizeCommand

SpecCalls == InitCalls /\ [][NextCalls]_vars

Returned(op) == call.op = op /\ call.returned

\* the lengths of a list of signals
LengthsOf(signals) == [k \in 1..Len(signals) |-> signals[k].length]

RECURSIVE Concat(_)
Concat(groups) == IF groups = <<>> THEN <<>> ELSE Head(groups) \o Concat(Tail(groups))

\* the floor of the arithmetic mean of a non-empty list of lengths, from its definition
FloorOfMean(lengths) ==
    CHOOSE q \in 0..SumSeq(lengths) :
        q * Len(lengths) <= SumSeq(lengths) /\ SumSeq(lengths) < (q + 1) * Len(lengths)

\* the classes of the kind of position k (a pulse at index 0, 2, ...; a gap at 1, 3, ...)
ClassesOfKind(k) == IF k % 2 = 1 THEN call.pulse_classes ELSE call.gap_classes

\* the places in the list of its kind of the classes whose interval holds the signal at k
Containing(k) ==
    {i \in 1..Len(ClassesOfKind(k)) :
        /\ ClassesOfKind(k)[i].min <= call.ir_signal_list[k].length
        /\ call.ir_signal_list[k].length <= ClassesOfKind(k)[i].max}

(***************************************************************************)
(* Properties of the three functions, under SpecCalls.                     *)
(***************************************************************************)
\* the positions of call.ir_signal_list whose length lies in no class of their kind
Unclassifiable == {k \in 1..Len(call.ir_signal_list) : Containing(k) = {}}

\* C1: whenever some element of the sequence given to normalize_command, at any
\* position including the final pulse, lies in no class of its own kind, the
\* call fails with an error identifying such an element and returns no
\* normalized sequence. (Any exception is taken as a failure here; the
\* 'Could not normalize' exception has to name an element that no class holds.)
C1_UnclassifiableRaises ==
    (Returned("normalize_command") /\ Unclassifiable # {}) =>
        /\ raised # NoError
        /\ raised.type = "Exception" =>
               \E k \in Unclassifiable : raised.signal = <<call.ir_signal_list[k]>>
        /\ ret.signal_list = <<>>

\* C3: the member lengths of the pulse classes parse_command returns are the
\* groups group_signals makes of the even-indexed elements with the tolerance
\* passed to parse_command, and those of the gap classes are the groups it
\* makes of the odd-indexed elements with that same tolerance.
C3_ParseUsesTolerance ==
    (Returned("parse_command") /\ raised = NoError) =>
        LET pulses == group_signals(EvenIndexed(call.ir_signal_list), call.tolerance).value
            gaps == group_signals(OddIndexed(call.ir_signal_list), call.tolerance).value
        IN  /\ [k \in 1..Len(ret.pulse_classes) |-> ret.pulse_classes[k].signals]
                   = [k \in 1..Len(pulses) |-> LengthsOf(pulses[k])]
            /\ [k \in 1..Len(ret.gap_classes) |-> ret.gap_classes[k].signals]
                   = [k \in 1..Len(gaps) |-> LengthsOf(gaps[k])]

\* C4: for a non-empty input, group_signals returns non-empty groups whose
\* concatenation in output order is the input in ascending order of length,
\* with no element lost or duplicated; one element gives one singleton group.
C4_GroupsPartitionSorted ==
    (Returned("group_signals") /\ call.ir_signal_list # <<>>) =>
        /\ raised = NoError
        /\ \A g \in 1..Len(ret) : ret[g] # <<>>
        /\ LET out == Concat(ret)
           IN  /\ Len(out) = Len(call.ir_signal_list)
               /\ \A x \in Range(call.ir_signal_list) :
                      Count(out, x) = Count(call.ir_signal_list, x)
               /\ \A k \in 1..(Len(out) - 1) : out[k].length <= out[k + 1].length
        /\ Len(call.ir_signal_list) = 1 => ret = <<call.ir_signal_list>>

C4_Witness ==
    /\ Returned("group_signals")
    /\ raised = NoError
    /\ Len(call.ir_signal_list) >= 3
    /\ Len(ret) >= 2
    /\ \E g \in 1..Len(ret) : Len(ret[g]) >= 2
    /\ \E k \in 1..(Len(call.ir_signal_list) - 1) :
           call.ir_signal_list[k].length > call.ir_signal_list[k + 1].length

\* C5: with tolerance d, adjacent elements a, b of one group satisfy
\* b < a*(1+d), and the last element a of a group and the first element b of
\* the next satisfy b >= a*(1+d): each element is compared with the one just
\* before it in sorted order, not with the first of its group.
C5_ChainedTolerance ==
    (Returned("group_signals") /\ raised = NoError) =>
        /\ \A g \in 1..Len(ret) : \A k \in 1..(Len(ret[g]) - 1) :
               100 * ret[g][k + 1].length < ret[g][k].length * (100 + call.tolerance)
        /\ \A g \in 1..(Len(ret) - 1) :
               100 * ret[g + 1][1].length
                   >= ret[g][Len(ret[g])].length * (100 + call.tolerance)

\* a group whose last element is out of tolerance of its first, next to another group
C5_Witness ==
    /\ Returned("group_signals")
    /\ raised = NoError
    /\ Len(ret) >= 2
    /\ \E g \in 1..Len(ret) :
           /\ Len(ret[g]) >= 3
           /\ ret[g][1].length > 0
           /\ 100 * ret[g][Len(ret[g])].length >= ret[g][1].length * (100 + call.tolerance)

\* C6: when normalize_command returns, every element that more than one class
\* of its kind contains is assigned the last of them in the order of the
\* class list it was given, at pulse and at gap positions alike.
C6_LastContainingClass ==
    (Returned("normalize_command") /\ raised = NoError) =>
        \A k \in 1..Len(call.ir_signal_list) :
            Cardinality(Containing(k)) > 1 =>
                ret.signal_class_list[k] = ClassesOfKind(k)[MaxOf(Containing(k))]

\* a gap, after a classified pulse, that lies in two different classes
C6_Witness ==
    /\ Returned("normalize_command")
    /\ raised = NoError
    /\ Len(call.ir_signal_list) >= 3
    /\ \E k \in 1..Len(call.ir_signal_list) :
           /\ k % 2 = 0
           /\ Cardinality(Containing(k)) > 1
           /\ ClassesOfKind(k)[MinOf(Containing(k))].signals
                  # ClassesOfKind(k)[MaxOf(Containing(k))].signals

\* C7: when normalize_command returns for a sequence of odd length, the
\* normalized sequence and the class assignment are as long as the input,
\* position i of the normalized sequence has the kind of input position i, and
\* its length is the floor of the mean of the member lengths of the class
\* assigned at i.
C7_FloorOfMean ==
    (Returned("normalize_command") /\ raised = NoError
        /\ Len(call.ir_signal_list) % 2 = 1) =>
        /\ Len(ret.signal_list) = Len(call.ir_signal_list)
        /\ Len(ret.signal_class_list) = Len(call.ir_signal_list)
        /\ \A i \in 1..Len(call.ir_signal_list) :
               /\ ret.signal_list[i].type = call.ir_signal_list[i].type
               /\ ret.signal_list[i].length = FloorOfMean(ret.signal_class_list[i].signals)

\* a sequence of three normalised with a class whose mean is not whole
C7_Witness ==
    /\ Returned("normalize_command")
    /\ raised = NoError
    /\ Len(call.ir_signal_list) = 3
    /\ \E i \in 1..Len(ret.signal_class_list) :
           /\ ret.signal_class_list[i].mean.den > 1
           /\ ret.signal_list[i].length # call.ir_signal_list[i].length

(***************************************************************************)
(* command.py: Command. One Command object, created from a list of raw     *)
(* lengths, on which normalize, normalize_with, to_json and from_json are  *)
(* called in any order; parse_command is also called on other captures to  *)
(* build the classes that normalize_with is given.                         *)
(***************************************************************************)
\* normalize_with with the two attributes assigned whether or not
\* normalize_command returns
normalize_withEager(pulse_classes, gap_classes) ==
    LET n == normalize_command(signal_list, pulse_classes, gap_classes)
    IN  [raised |-> n.raised, signal_list |-> n.signal_list,
         signal_class_list |-> Some(n.signal_class_list)]

\* Command.normalize_with: the assignment to self.signal_list and
\* self.signal_class_list is made only when normalize_command returns
normalize_with(pulse_classes, gap_classes) ==
    LET n == normalize_command(signal_list, pulse_classes, gap_classes)
    IN  IF n.raised # NoError
        THEN [raised |-> n.raised, signal_list |-> signal_list,
              signal_class_list |-> signal_class_list]
        ELSE [raised |-> NoError, signal_list |-> n.signal_list,
              signal_class_list |-> Some(n.signal_class_list)]

\* Command.to_json: json.dumps with default=lambda o: {'type': class name,
\* **o.__dict__}; None becomes null
to_json ==
    [type |-> "Command", name |-> name, signal_list |-> signal_list,
     description |-> description, signal_class_list |-> signal_class_list]

\* Signal.from_json on a dict: cls(dct['length'])
Signal_from_json(dct) == [type |-> dct.type, length |-> dct.length]

\* SignalClass.from_json on a dict: every key but 'type' becomes an attribute
\* of a new object of the class the document names
SignalClass_from_json(dct) ==
    [type |-> dct.type, uid |-> dct.uid, signals |-> dct.signals, mean |-> dct.mean,
     mode |-> dct.mode, min |-> dct.min, max |-> dct.max, range |-> dct.range,
     id |-> dct.id]

\* the class attribute uid after SignalClass.from_json has decoded, in order,
\* the classes of this type in the list: it is raised to a decoded uid above it
RECURSIVE UidAfterDecoding(_, _, _)
UidAfterDecoding(type, docs, counter) ==
    IF docs = <<>> THEN counter
    ELSE UidAfterDecoding(type, Tail(docs),
                          IF Head(docs).type = type /\ counter < Head(docs).uid
                          THEN Head(docs).uid ELSE counter)

\* Command.from_json: iterating dct['signal_class_list'] raises TypeError when
\* it is null
Command_from_json(dct, pulse_uid, gap_uid) ==
    IF dct.signal_class_list.none
    THEN [raised |-> TypeError, name |-> "", description |-> "", signal_list |-> <<>>,
          signal_class_list |-> None, PulseClass_uid |-> pulse_uid, GapClass_uid |-> gap_uid]
    ELSE [raised |-> NoError,
          name |-> dct.name,
          description |-> dct.description,
          signal_list |->
              [k \in 1..Len(dct.signal_list) |-> Signal_from_json(dct.signal_list[k])],
          signal_class_list |->
              Some([k \in 1..Len(dct.signal_class_list.list) |->
                       SignalClass_from_json(dct.signal_class_list.list[k])]),
          PulseClass_uid |->
              UidAfterDecoding("PulseClass", dct.signal_class_list.list, pulse_uid),
          GapClass_uid |->
              UidAfterDecoding("GapClass", dct.signal_class_list.list, gap_uid)]

\* the captures parse_command is called on to build classes for normalize_with:
\* a pulse, a gap and a pulse of one length
ReferenceCaptures == {<<length, length, length>> : length \in ClassLengths}

Called(op, after, signals, tolerance, pulse_classes, gap_classes) ==
    [op |-> op, returned |-> TRUE, after |-> after, ir_signal_list |-> signals,
     tolerance |-> tolerance, pulse_classes |-> pulse_classes, gap_classes |-> gap_classes]

\* the call just made, when it returned; "" when it raised
LastReturned == IF raised = NoError THEN call.op ELSE ""

\* Command(name, ir_signal_list) with a list of int
Init ==
    /\ name = "power"
    /\ description = "on/off"
    /\ \E lengths \in SeqsUpTo(ClassLengths, MaxLen) : signal_list = Signals(lengths)
    /\ signal_class_list = None
    /\ raw_capture = signal_list
    /\ PulseClass_uid = 0
    /\ GapClass_uid = 0
    /\ class_ids = NoClasses
    /\ json = None
    /\ call = Called("__init__", "", <<>>, DefaultTolerance, <<>>, <<>>)
    /\ raised = NoError
    /\ ret = [pulse_classes |-> <<>>, gap_classes |-> <<>>]

\* Command.normalize(tolerance)
Normalize(tolerance) ==
    /\ PulseClass_uid < MaxUid
    /\ GapClass_uid < MaxUid
    /\ LET p == parse_command(signal_list, tolerance, PulseClass_uid, GapClass_uid)
           n == normalize_with(p.pulse_classes, p.gap_classes)
       IN  /\ call' = Called("normalize", LastReturned, signal_list, tolerance,
                             p.pulse_classes, p.gap_classes)
           /\ PulseClass_uid' = p.PulseClass_uid
           /\ GapClass_uid' = p.GapClass_uid
           /\ class_ids' = WithClasses(class_ids, p.pulse_classes \o p.gap_classes)
           /\ IF p.raised # NoError
              THEN raised' = p.raised /\ UNCHANGED <<signal_list, signal_class_list>>
              ELSE /\ raised' = n.raised
                   /\ signal_list' = n.signal_list
                   /\ signal_class_list' = n.signal_class_list
    /\ UNCHANGED <<name, description, raw_capture, json, ret>>

\* pulse_classes, gap_classes = parse_command(reference)
ParseReference(reference) ==
    /\ PulseClass_uid < MaxUid
    /\ GapClass_uid < MaxUid
    /\ LET p == parse_command(Signals(reference), DefaultTolerance,
                              PulseClass_uid, GapClass_uid)
       IN  /\ call' = Called("parse_command", LastReturned, Signals(reference),
                             DefaultTolerance, p.pulse_classes, p.gap_classes)
           /\ raised' = p.raised
           /\ PulseClass_uid' = p.PulseClass_uid
           /\ GapClass_uid' = p.GapClass_uid
           /\ class_ids' = WithClasses(class_ids, p.pulse_classes \o p.gap_classes)
           /\ IF p.raised # NoError THEN UNCHANGED ret
              ELSE ret' = [pulse_classes |-> p.pulse_classes, gap_classes |-> p.gap_classes]
    /\ UNCHANGED <<name, description, signal_list, signal_class_list, raw_capture, json>>

\* Command.normalize_with(pulse_classes, gap_classes), with the classes
\* parse_command last returned
NormalizeWith ==
    /\ LET n == normalize_with(ret.pulse_classes, ret.gap_classes)
       IN  /\ call' = Called("normalize_with", LastReturned, signal_list, DefaultTolerance,
                             ret.pulse_classes, ret.gap_classes)
           /\ raised' = n.raised
           /\ signal_list' = n.signal_list
           /\ signal_class_list' = n.signal_class_list
    /\ UNCHANGED <<name, description, raw_capture, PulseClass_uid, GapClass_uid,
                   class_ids, json, ret>>

\* document = cmd.to_json()
ToJson ==
    /\ json' = Some(<<to_json>>)
    /\ call' = Called("to_json", LastReturned, <<>>, DefaultTolerance, <<>>, <<>>)
    /\ raised' = NoError
    /\ UNCHANGED <<name, description, signal_list, signal_class_list, raw_capture,
                   PulseClass_uid, GapClass_uid, class_ids, ret>>

\* cmd = Command.from_json(document): cmd is not assigned when the call raises
FromJson ==
    /\ ~json.none
    /\ LET d == Command_from_json(json.list[1], PulseClass_uid, GapClass_uid)
       IN  /\ call' = Called("from_json", LastReturned, <<>>, DefaultTolerance, <<>>, <<>>)
           /\ raised' = d.raised
           /\ PulseClass_uid' = d.PulseClass_uid
           /\ GapClass_uid' = d.GapClass_uid
           /\ class_ids' = WithClasses(class_ids, d.signal_class_list.list)
           /\ IF d.raised # NoError
              THEN UNCHANGED <<name, description, signal_list, signal_class_list,
                               raw_capture>>
              ELSE /\ name' = d.name
                   /\ description' = d.description
                   /\ signal_list' = d.signal_list
                   /\ signal_class_list' = d.signal_class_list
                   /\ raw_capture' = d.signal_list
    /\ UNCHANGED <<json, ret>>

Next ==
    \/ \E tolerance \in Tolerances : Normalize(tolerance)
    \/ \E reference \in ReferenceCaptures : ParseReference(reference)
    \/ NormalizeWith
    \/ ToJson
    \/ FromJson

Spec == Init /\ [][Next]_vars

(***************************************************************************)
(* Properties of Command, under Spec.                                      *)
(***************************************************************************)
\* every element of the sequence normalize was called on has a class, which
\* contains it
EveryElementAssigned ==
    /\ raised = NoError
    /\ ~signal_class_list.none
    /\ Len(signal_class_list.list) = Len(call.ir_signal_list)
    /\ \A k \in 1..Len(call.ir_signal_list) :
           /\ signal_class_list.list[k].min <= call.ir_signal_list[k].length
           /\ call.ir_signal_list[k].length <= signal_class_list.list[k].max

\* C2 as stated: for every sequence of odd length, one element or more, that
\* starts and ends on a pulse, and every tolerance, Command.normalize (parse_command,
\* then normalize_command with the classes it made) raises nothing and assigns
\* every element a class.
C2_NormalizeSucceeds ==
    (call.op = "normalize" /\ Len(call.ir_signal_list) % 2 = 1) => EveryElementAssigned

\* C2 as amended: the same for every sequence of odd length of three elements
\* or more; a single pulse has no gap to group and parse_command raises.
C2_NormalizeSucceedsFromThree ==
    (call.op = "normalize" /\ Len(call.ir_signal_list) % 2 = 1
        /\ Len(call.ir_signal_list) >= 3) => EveryElementAssigned

\* a sequence of three normalised with a tolerance other than the default,
\* two different pulses sharing a class
C2_Witness ==
    /\ call.op = "normalize"
    /\ call.tolerance # DefaultTolerance
    /\ Len(call.ir_signal_list) = 3
    /\ raised = NoError
    /\ call.ir_signal_list[1].length # call.ir_signal_list[3].length
    /\ signal_class_list.list[1] = signal_class_list.list[3]

\* the descriptor of a class
Descriptor(cls) ==
    [kind |-> cls.type, id |-> cls.id, min |-> cls.min, max |-> cls.max,
     mean |-> cls.mean, mode |-> cls.mode, count |-> count(cls)]

\* C8: for a command in the Raw state as in the Normalized state,
\* Command.from_json(cmd.to_json()) returns a command with the same name,
\* description and signal sequence and, position by position, the same class
\* descriptors (kind, id, min, max, mean, mode, count).
C8_JsonRoundTrip ==
    [][(FromJson /\ json = Some(<<to_json>>)) =>
          /\ raised' = NoError
          /\ name' = name
          /\ description' = description
          /\ signal_list' = signal_list
          /\ signal_class_list'.none = signal_class_list.none
          /\ Len(signal_class_list'.list) = Len(signal_class_list.list)
          /\ \A k \in 1..Len(signal_class_list.list) :
                 Descriptor(signal_class_list'.list[k]) = Descriptor(signal_class_list.list[k])
      ]_vars

\* a sequence of some elements that are even in number, that does not start
\* and end on a pulse, or that has a length that is not positive
Malformed(signals) ==
    /\ signals # <<>>
    /\ \/ Len(signals) % 2 = 0
       \/ signals[1].type # "Pulse"
       \/ signals[Len(signals)].type # "Pulse"
       \/ \E k \in 1..Len(signals) : signals[k].length <= 0

\* C9: a malformed raw sequence is rejected with a ValidationError before any
\* grouping or class lookup: no class is created and no normalized sequence
\* is produced for it.
C9_MalformedRejected ==
    (call.op \in {"normalize", "normalize_with"} /\ Malformed(call.ir_signal_list)) =>
        /\ raised.type = "ValidationError"
        /\ call.op = "normalize" => (call.pulse_classes = <<>> /\ call.gap_classes = <<>>)
        /\ signal_list = call.ir_signal_list

\* C10: a normalize that follows a normalize that succeeded succeeds too,
\* leaves the command Normalized (its class list present) and leaves its
\* normalized sequence, kinds and lengths, as the earlier call made it.
C10_NormalizeIdempotent ==
    (call.op = "normalize" /\ call.after = "normalize") =>
        /\ raised = NoError
        /\ ~signal_class_list.none
        /\ signal_list = call.ir_signal_list

\* a second normalize in a row, on a sequence of three whose two pulses share a class
C10_Witness ==
    /\ call.op = "normalize"
    /\ call.after = "normalize"
    /\ raised = NoError
    /\ Len(signal_list) = 3
    /\ count(signal_class_list.list[1]) = 2

\* C11: Command.normalize_with(P, G) has the outcome that normalize_with(P, G)
\* has on a fresh Command holding the sequence this Command was created with:
\* it raises in the same cases and, when it returns, leaves the same normalized
\* sequence and the same class assignment, whatever normalize and
\* normalize_with calls came before.
C11_NormalizeWithOnRawCapture ==
    (call.op = "normalize_with") =>
        LET fresh == normalize_command(raw_capture, call.pulse_classes, call.gap_classes)
        IN  /\ (raised = NoError) = (fresh.raised = NoError)
            /\ raised = NoError =>
                   /\ signal_list = fresh.signal_list
                   /\ signal_class_list = Some(fresh.signal_class_list)

(***************************************************************************)
(* A process that starts with a document at hand that an earlier process   *)
(* wrote with Command.to_json: the class attributes are 0 again, as after  *)
(* the import of ircodec.signal, and the document holds the classes the    *)
(* earlier process constructed.                                            *)
(***************************************************************************)
\* the document of Command('power', capture, 'on/off') after normalize() in a
\* process that had constructed no class before
StoredDocument(capture) ==
    LET p == parse_command(Signals(capture), DefaultTolerance, 0, 0)
        n == normalize_command(Signals(capture), p.pulse_classes, p.gap_classes)
    IN  [type |-> "Command", name |-> "power", signal_list |-> n.signal_list,
         description |-> "on/off", signal_class_list |-> Some(n.signal_class_list)]

InitStored ==
    /\ name = "power"
    /\ description = "on/off"
    /\ \E lengths \in SeqsUpTo(ClassLengths, MaxLen) : signal_list = Signals(lengths)
    /\ signal_class_list = None
    /\ raw_capture = signal_list
    /\ PulseClass_uid = 0
    /\ GapClass_uid = 0
    /\ class_ids = NoClasses
    /\ \E capture \in ReferenceCaptures : json = Some(<<StoredDocument(capture)>>)
    /\ call = Called("__init__", "", <<>>, DefaultTolerance, <<>>, <<>>)
    /\ raised = NoError
    /\ ret = [pulse_classes |-> <<>>, gap_classes |-> <<>>]

SpecStored == InitStored /\ [][Next]_vars

\* C12: in one process, a PulseClass (GapClass) that parse_command constructs
\* gets neither a uid nor an id that a PulseClass (GapClass) constructed or
\* decoded by from_json earlier holds, and the call advances each of the two
\* counters by the classes of its own kind only.
C12_ClassIdsUnique ==
    [][(call'.op \in {"parse_command", "normalize"}) =>
          /\ IdsOf("PulseClass", call'.pulse_classes) \cap class_ids.PulseClass = {}
          /\ IdsOf("GapClass", call'.gap_classes) \cap class_ids.GapClass = {}
          /\ PulseClass_uid' = PulseClass_uid + 2 * Len(call'.pulse_classes)
          /\ GapClass_uid' = GapClass_uid + 2 * Len(call'.gap_classes)]_vars

\* C13: a call of Command.normalize or Command.normalize_with that raises
\* leaves signal_list and signal_class_list as they were before the call: a
\* Command that was never normalized keeps None for its classes, a normalized
\* one keeps its normalized sequence and its class assignment.
C13_FailedNormalizeChangesNothing ==
    [][(call'.op \in {"normalize", "normalize_with"} /\ raised' # NoError) =>
          /\ signal_list' = signal_list
          /\ signal_class_list' = signal_class_list]_vars

\* normalize_with, given classes of another capture, has raised 'Could not
\* normalize' on a Command of three signals that an earlier call had normalized
C13_Witness ==
    /\ call.op = "normalize_with"
    /\ raised.type = "Exception"
    /\ ~signal_class_list.none
    /\ signal_list = call.ir_signal_list
    /\ Len(raw_capture) = 3
    /\ call.pulse_classes # <<>>
    /\ call.gap_classes # <<>>
====
